---- MODULE Spec2Model ----
(***************************************************************************)
(* Colonyzer driver scripts (scripts/parseAndRun.py and                    *)
(* scripts/timecourse_fixedpos.py): several worker processes run main()    *)
(* over one image directory and coordinate only through the files of       *)
(* Output_Data.  A barcode's lock marker is the (empty) .out file of its   *)
(* earliest image, which is also the file the measurements of that image   *)
(* are written to at the end of the batch.                                 *)
(***************************************************************************)
EXTENDS Integers, Sequences, FiniteSets, TLC

\* ------------------------------------------------------------- bounds
NumWorkers == 2
NumBarcodes == 2
MaxImages == 2
\* Pixel intensities, thresholds and background means are levels 0..MaxLevel.
MaxLevel == 2
\* Largest image dimension and largest grid spacing handed to the window computations.
MaxDim == 4
MaxSpacing == 3

Workers == 1..NumWorkers
\* Barcode strings, numbered in their sorted() order.
Barcodes == 1..NumBarcodes
\* Position of an image in barcdict[b]: 1 is IMs[0] (latest), nimg[b] is IMs[-1] (earliest).
ImageIdx == 1..MaxImages

\* Content of an Output_Data file: Absent, 0 rows (the empty marker), or a row count.
Absent == 0 - 1

VARIABLES
  cfg,       \* the parsed command line (argparse namespace), the same for every worker
  nimg,      \* nimg[b]: length of the image list of barcode b (directory or manifest)
  outFile,   \* outFile[b][i]: Output_Data/<image>.out
  datFile,   \* datFile[b][i]: Output_Data/<image>.dat
  pc,        \* pc[w]: position of worker w in main()
  barcdict,  \* barcdict[w]: keys of the worker's local dictionary of barcodes to analyse
  BARCODE,   \* BARCODE[w]: the barcode of the current iteration of the while loop (0: none)
  imgIdx,    \* imgIdx[w]: position of FILENAME in barcdict[BARCODE] (0: outside the for loop)
  err,       \* err[w]: the exception that ended worker w ("" if none)
  written,   \* written[w]: images of BARCODE[w] whose .out/.dat worker w has written, in order
  claims,    \* claims[b]: how many workers have created the marker of b (line 199)
  opens,     \* opens[b]: how many workers have opened the reference images of b
  writers,   \* writers[b]: how many workers have written a per-image .out/.dat of b
  completed, \* completed[b]: some worker has processed every image of b
  step,      \* one iteration of main's while loop, line by line: the position reached
  loc,       \* ... the local variables of main in that iteration
  calls,     \* ... calls[f]: how many times the iteration has called f
  geom,      \* grid geometry handed to the window computations
  windows    \* the index windows computed from geom

\* The detailed walk through one iteration and the window computations.
detailVars == <<step, loc, calls, geom, windows>>

\* The workers and the files they share.
protocolVars == <<outFile, datFile, pc, barcdict, BARCODE, imgIdx, err, written,
                  claims, opens, writers, completed>>

vars == <<cfg, nimg, outFile, datFile, pc, barcdict, BARCODE, imgIdx, err, written,
          claims, opens, writers, completed, step, loc, calls, geom, windows>>

\* ------------------------------------------------------------- inputs
\* Command lines the workers are started with.
CommandLines ==
  { [script |-> "parseAndRun", fmt |-> <<"384">>, initpos |-> FALSE, usedict |-> FALSE,
     lc |-> TRUE, cut |-> FALSE, quiet |-> FALSE,
     diffims |-> FALSE, plots |-> FALSE, fixthresh |-> <<>>],
    [script |-> "parseAndRun", fmt |-> <<"1", "2">>, initpos |-> TRUE, usedict |-> TRUE,
     lc |-> FALSE, cut |-> FALSE, quiet |-> FALSE,
     diffims |-> FALSE, plots |-> FALSE, fixthresh |-> <<>>],
    [script |-> "parseAndRun", fmt |-> <<"1", "2", "3">>, initpos |-> FALSE, usedict |-> FALSE,
     lc |-> FALSE, cut |-> FALSE, quiet |-> FALSE,
     diffims |-> FALSE, plots |-> FALSE, fixthresh |-> <<>>],
    [script |-> "parseAndRun", fmt |-> <<"0", "2">>, initpos |-> TRUE, usedict |-> FALSE,
     lc |-> FALSE, cut |-> FALSE, quiet |-> FALSE,
     diffims |-> FALSE, plots |-> FALSE, fixthresh |-> <<>>],
    [script |-> "parseAndRun", fmt |-> <<"1x2">>, initpos |-> FALSE, usedict |-> FALSE,
     lc |-> TRUE, cut |-> TRUE, quiet |-> FALSE,
     diffims |-> FALSE, plots |-> FALSE, fixthresh |-> <<>>],
    [script |-> "parseAndRun", fmt |-> <<"384">>, initpos |-> FALSE, usedict |-> FALSE,
     lc |-> FALSE, cut |-> FALSE, quiet |-> TRUE,
     diffims |-> FALSE, plots |-> FALSE, fixthresh |-> <<>>],
    [script |-> "timecourse_fixedpos", fmt |-> <<"2", "1">>, initpos |-> TRUE, usedict |-> FALSE,
     lc |-> TRUE, cut |-> FALSE, quiet |-> FALSE,
     diffims |-> FALSE, plots |-> FALSE, fixthresh |-> <<>>] }

\* Values of -f/--fixthresh: not given (None), or a number.
FixedThresholds == {<<>>, <<0 - 1>>, <<0>>, <<MaxLevel>>}

\* Command lines of the line-by-line walk: every combination of the flags each
\* script's parser knows (timecourse_fixedpos.py has no -x, -m, -q; its -t is plots).
Options ==
  { c \in [script : {"parseAndRun", "timecourse_fixedpos"}, fmt : {<<"1x2">>},
            initpos : BOOLEAN, usedict : {FALSE}, lc : BOOLEAN, cut : BOOLEAN,
            quiet : BOOLEAN, diffims : BOOLEAN, plots : BOOLEAN,
            fixthresh : FixedThresholds] :
      c.script = "timecourse_fixedpos" => ~c.cut /\ ~c.quiet /\ ~c.diffims }

\* Image lists on disk (or in the manifest): the first barcode has any number of
\* images, every other barcode is a single-timepoint batch.
ImageCounts == {[b \in Barcodes |-> IF b = 1 THEN n ELSE 1] : n \in 0..MaxImages}

\* What readInstructions finds in Colonyzer.txt for the latest image of a barcode.
InsDataKinds == {"filename", "dated", "default", "none"}

\* ------------------------------------------------------------- library (colonyzer2)
\* c2.parsePlateFormat: a named preset or an explicit "<rows>x<cols>".
parsePlateFormat(tok) ==
  CASE tok = "96" -> <<8, 12>>
    [] tok = "384" -> <<16, 24>>
    [] tok = "1x2" -> <<1, 2>>
    [] OTHER -> <<0, 0>>

\* c2.checkAnalysisStarted(fname): does Output_Data/<fname>.out exist?
checkAnalysisStarted(files, b, i) == files[b][i] # Absent

\* c2.getBarcodes: barcodes with images on disk whose marker does not exist yet.
getBarcodes(files, n) ==
  {b \in Barcodes : n[b] > 0 /\ ~checkAnalysisStarted(files, b, n[b])}

\* c2.estimateLocations / c2.locateCultures: a grid of no cells cannot be located.
gridDegenerate(nrow, ncol) == nrow * ncol = 0

\* ------------------------------------------------------------- parseAndRun.py
\* int(x) on a grid dimension token.
int(tok) ==
  CASE tok = "0" -> 0
    [] tok = "1" -> 1
    [] tok = "2" -> 2
    [] tok = "3" -> 3

\* Variant of diffIms that follows -m/--diffims whatever -c/--lc says.
diffImsUnguarded(c) == c.diffims

\* buildVars, lines 93-99: diffIms=False; if inp.lc: if inp.diffims: diffIms=True
diffIms(c) == c.lc /\ c.diffims

\* buildVars, lines 108-114: cut=False; if inp.lc: if inp.cut: cut=True
cut(c) == c.lc /\ c.cut

\* buildVars, lines 67-70: the threshold given with -f, or -99.
fixedThresh(c) == IF c.fixthresh # <<>> THEN c.fixthresh[1] ELSE 0 - 99

\* buildVars: the dictionary it returns, and whether the function raises
\* (cut and diffIms are assigned only under "if verbose:", and read at the end).
buildVars(c) ==
  LET grid == IF Len(c.fmt) > 2 THEN <<0, 0>>
              ELSE IF Len(c.fmt) = 1 THEN parsePlateFormat(c.fmt[1])
              ELSE <<int(c.fmt[1]), int(c.fmt[2])>>
  IN [raises |-> (c.script = "parseAndRun" /\ c.quiet),
      nrow |-> grid[1], ncol |-> grid[2],
      lc |-> c.lc, fixedThresh |-> fixedThresh(c), plots |-> c.plots,
      initpos |-> c.initpos, cut |-> cut(c), diffIms |-> diffIms(c)]

nrow == buildVars(cfg).nrow
ncol == buildVars(cfg).ncol

\* The marker of barcode b is the .out file of barcdict[b][-1].
MarkerExists(files, b) == nimg[b] > 0 /\ checkAnalysisStarted(files, b, nimg[b])

\* Variant of DropStarted that tests barcdict[x][0], the latest image, instead.
DropStartedLatest(d, files) == {x \in d : ~checkAnalysisStarted(files, x, 1)}

\* Variant of DropStarted that keeps every barcode.
DropStartedNone(d, files) == d

\* {x:barcdict[x] for x in barcdict.keys() if not c2.checkAnalysisStarted(barcdict[x][-1])}
DropStarted(d, files) == {x \in d : ~checkAnalysisStarted(files, x, nimg[x])}

\* barcdict[x][-1] raises IndexError on an empty list.
Malformed(d) == \E x \in d : nimg[x] = 0

\* Variant of checkImages that lists every barcode with images, marker or not.
checkImagesUnfiltered(files) ==
  IF cfg.usedict /\ Malformed(Barcodes)
    THEN [raises |-> TRUE, dict |-> {}]
    ELSE [raises |-> FALSE, dict |-> {b \in Barcodes : nimg[b] > 0}]

\* checkImages: the index a worker starts from ([raises, dict]).
checkImages(files) ==
  IF cfg.usedict
    THEN IF Malformed(Barcodes)
           THEN [raises |-> TRUE, dict |-> {}]
           ELSE [raises |-> FALSE, dict |-> DropStarted(Barcodes, files)]
    ELSE [raises |-> FALSE, dict |-> getBarcodes(files, nimg)]

\* Variant of prepareTimecourse that takes sorted(barcdict)[-1].
prepareTimecourseLast(d) == CHOOSE b \in d : \A x \in d : b >= x

\* prepareTimecourse: BARCODE=sorted(barcdict)[0]
prepareTimecourse(d) == CHOOSE b \in d : \A x \in d : b <= x

\* Variant of CreateMarker that creates nothing.
CreateMarkerSkipped(files, b) == files

\* Variant of CreateMarker that writes a line into the marker.
CreateMarkerStamped(files, b) == [files EXCEPT ![b][nimg[b]] = 1]

\* Variant of CreateMarker that clears a marker it finds in place.
CreateMarkerClearing(files, b) ==
  [files EXCEPT ![b][nimg[b]] = IF @ = Absent THEN 0 ELSE Absent]

\* open(<EARLIESTIMAGE>.out,"w").close(): creates the file, or truncates the one there.
CreateMarker(files, b) == [files EXCEPT ![b][nimg[b]] = 0]

\* loadLocationGuesses: InsData['default'] raises KeyError when there is no entry.
loadLocationGuesses(ins) == [raises |-> (ins = "none")]

\* The exception, if any, that ends lines 201-253 of main ("" if none):
\* c2.openImage fails; no initial guess or no grid to locate; with lc and cut,
\* edgeFill calls getEdges, a name the script never defines.
prepareOutcome(openOk, ins) ==
  IF ~openOk THEN "IOError"
  ELSE IF (cfg.initpos /\ loadLocationGuesses(ins).raises) \/ gridDegenerate(nrow, ncol)
    THEN "calibration"
  ELSE IF cfg.script = "parseAndRun" /\ cfg.lc /\ cfg.cut THEN "NameError"
  ELSE ""

\* Variant of ReachesWrite in which a failed open is swallowed and the write goes ahead.
ReachesWriteAnyway(openOk) == TRUE

\* Is the write of the results (lines 281-282) reached after c2.openImage(FILENAME)?
ReachesWrite(openOk) == openOk

\* ------------------------------------------------------------- one iteration, line by line
Levels == 0..MaxLevel

\* An image array: which image of the batch it holds (0: the name is unbound), whether
\* it was multiplied by the correction map, and the amount added to every pixel.
NoArray == [image |-> 0, corrected |-> FALSE, shift |-> 0]
RawArray(i) == [image |-> i, corrected |-> FALSE, shift |-> 0]

\* Values of main's local names before line 193.
NoLocals ==
  [arrN |-> NoArray, arr0 |-> NoArray, corrected_arrN |-> NoArray,
   trimmed_arrN |-> NoArray, arr |-> NoArray,
   correction_map |-> FALSE,     \* is the name bound?
   average_back |-> 0, thresh |-> 0, threshadj |-> 0, meanPx |-> 0,
   fitted |-> NoArray,           \* the array handed to c2.automaticThreshold
   compared |-> NoArray,         \* the array compared with threshadj (line 275)
   measured |-> NoArray,         \* the array handed to c2.measureSizeAndColour
   FILENAME |-> 0,               \* position in barcdict[BARCODE] of the image of the loop
   exc |-> ""]

NoCalls ==
  [openImage |-> 0,              \* c2.openImage before the image loop (lines 202-207)
   PdfPages |-> 0, makeCorrectionMap |-> 0, automaticThreshold |-> 0, plotModel |-> 0,
   measureSizeAndColour |-> 0, threshPreview |-> 0, save |-> 0]

\* The options main unpacks from buildVars (line 183).
correction == buildVars(cfg).lc
plots == buildVars(cfg).plots
initpos == buildVars(cfg).initpos

\* The batch of the walk: the first barcode, LATESTIMAGE is image 1, EARLIESTIMAGE image n.
BatchLen == nimg[1]

\* Lines 201-207 (timecourse_fixedpos.py 177-180): c2.openImage calls before the loop.
referenceOpens(script, n) ==
  IF script = "parseAndRun" /\ n = 1 THEN 1 ELSE 2

\* Variant of usesFixedThresh that takes a threshold of 0 for "none given".
usesFixedThreshPositive(ft) == ft > 0

\* Line 244 (timecourse_fixedpos.py 213): if fixedThresh>=0
usesFixedThresh(ft) == ft >= 0

\* Variant of adjustThreshold that leaves the threshold where it was.
adjustThresholdNot(t, back, mean) == t

\* Line 270: threshadj=thresh+(average_back-meanPx)
adjustThreshold(t, back, mean) == t + (back - mean)

\* Variant of savesPreview that renders the overlay only when plots is set.
savesPreviewIfPlots(p) == p

\* Lines 284-292 (timecourse_fixedpos.py 252-254) are not under any condition.
savesPreview(p) == TRUE

\* ------------------------------------------------------------- index windows
Max(a, b) == IF a >= b THEN a ELSE b
Min(a, b) == IF a <= b THEN a ELSE b

\* int(round(h/2.0)) for an integer h: halves go to the even neighbour.
roundHalf(h) ==
  LET k == h \div 2 IN
    IF h % 2 = 0 THEN k ELSE IF k % 2 = 0 THEN k ELSE k + 1

\* One axis of the grid: the image extent along it, the smallest and the largest
\* culture centre, and the grid spacing.
Axes ==
  { a \in [shape : 1..MaxDim, lo : 0..MaxDim, hi : 0..MaxDim, d : 1..MaxSpacing] :
      a.lo <= a.hi /\ a.hi <= a.shape }

\* Line 242: max(0,int(round(min(locationsN.y)-dy/2.0))) :
\*           min(arrN.shape[0],int(round(max(locationsN.y)+dy/2.0)))
trimWindow(a) ==
  <<Max(0, roundHalf(2 * a.lo - a.d)), Min(a.shape, roundHalf(2 * a.hi + a.d))>>

\* Lines 265-266: the same expressions as line 242.
driftWindow(a) ==
  <<Max(0, roundHalf(2 * a.lo - a.d)), Min(a.shape, roundHalf(2 * a.hi + a.d))>>

\* Line 238: numpy.min(locationsN.y) : numpy.max(locationsN.y)
averageBackWindow(a) == <<a.lo, a.hi>>

\* cutEdgesFromMask, lines 161-164: everything before min(locations.y-dy/2) and from
\* max(locations.y+dy/2) on is blanked; both bounds in half pixels.
cutEdgesFromMask(a) == <<2 * a.lo - a.d, 2 * a.hi + a.d>>

NoWindow == <<0, 0>>
NoWindows ==
  [computed |-> {}, trim |-> NoWindow, drift |-> NoWindow,
   averageBack |-> NoWindow, cutEdges |-> NoWindow]

\* ------------------------------------------------------------- state machine
TypeOK ==
  /\ cfg \in CommandLines
  /\ nimg \in [Barcodes -> 0..MaxImages]
  /\ pc \in [Workers -> {"start", "loop", "claimed", "images",
                         "done", "crashed", "killed"}]

\* No worker has started; Output_Data is empty.
ProtocolInit ==
  /\ outFile = [b \in Barcodes |-> [i \in ImageIdx |-> Absent]]
  /\ datFile = [b \in Barcodes |-> [i \in ImageIdx |-> Absent]]
  /\ pc = [w \in Workers |-> "start"]
  /\ barcdict = [w \in Workers |-> {}]
  /\ BARCODE = [w \in Workers |-> 0]
  /\ imgIdx = [w \in Workers |-> 0]
  /\ err = [w \in Workers |-> ""]
  /\ written = [w \in Workers |-> <<>>]
  /\ claims = [b \in Barcodes |-> 0]
  /\ opens = [b \in Barcodes |-> 0]
  /\ writers = [b \in Barcodes |-> 0]
  /\ completed = [b \in Barcodes |-> FALSE]

\* The line-by-line walk and the window computations are not part of the run.
DetailOff ==
  /\ step = "off"
  /\ loc = <<>>
  /\ calls = <<>>
  /\ geom = <<>>
  /\ windows = <<>>

Init ==
  /\ cfg \in CommandLines
  /\ nimg \in ImageCounts
  \* a directory scan only finds barcodes that have an image
  /\ ~cfg.usedict => \A b \in Barcodes : nimg[b] >= 1
  /\ ProtocolInit
  /\ DetailOff

\* An uncaught exception ends the process: its dictionary of barcodes is gone.
Raise(w, e) ==
  /\ pc' = [pc EXCEPT ![w] = "crashed"]
  /\ err' = [err EXCEPT ![w] = e]
  /\ barcdict' = [barcdict EXCEPT ![w] = {}]

\* main, lines 182-187: buildVars, checkImages, setupDirectories.
Startup(w) ==
  /\ pc[w] = "start"
  /\ IF buildVars(cfg).raises
       THEN Raise(w, "UnboundLocalError")
       ELSE IF checkImages(outFile).raises
              THEN Raise(w, "IndexError")
              ELSE /\ barcdict' = [barcdict EXCEPT ![w] = checkImages(outFile).dict]
                   /\ pc' = [pc EXCEPT ![w] = "loop"]
                   /\ UNCHANGED err
  /\ UNCHANGED <<cfg, nimg, outFile, datFile, BARCODE, imgIdx, written,
                 claims, opens, writers, completed>>
  /\ UNCHANGED detailVars

\* main, line 189 false, line 304.
Finish(w) ==
  /\ pc[w] = "loop"
  /\ barcdict[w] = {}
  /\ pc' = [pc EXCEPT ![w] = "done"]
  /\ UNCHANGED <<cfg, nimg, outFile, datFile, barcdict, BARCODE, imgIdx, err, written,
                 claims, opens, writers, completed>>
  /\ UNCHANGED detailVars

\* main, lines 189-199: pick the next barcode and create its marker file.
Claim(w) ==
  /\ pc[w] = "loop"
  /\ barcdict[w] # {}
  /\ LET b == prepareTimecourse(barcdict[w]) IN
       /\ BARCODE' = [BARCODE EXCEPT ![w] = b]
       /\ outFile' = CreateMarker(outFile, b)
       /\ claims' = [claims EXCEPT ![b] = @ + 1]
  /\ pc' = [pc EXCEPT ![w] = "claimed"]
  /\ UNCHANGED <<cfg, nimg, datFile, barcdict, imgIdx, err, written, opens, writers, completed>>
  /\ UNCHANGED detailVars

\* main, lines 201-253: open the latest and the earliest image, locate the cultures,
\* build the correction map, trim, threshold, mask the latest image.
Prepare(w) ==
  /\ pc[w] = "claimed"
  /\ \E openOk \in BOOLEAN, ins \in InsDataKinds :
       LET e == prepareOutcome(openOk, ins) IN
         /\ opens' = [opens EXCEPT ![BARCODE[w]] = IF openOk THEN @ + 1 ELSE @]
         /\ IF e = ""
              THEN /\ pc' = [pc EXCEPT ![w] = "images"]
                   /\ imgIdx' = [imgIdx EXCEPT ![w] = 1]
                   /\ UNCHANGED <<err, barcdict>>
              ELSE Raise(w, e) /\ UNCHANGED imgIdx
  /\ UNCHANGED <<cfg, nimg, outFile, datFile, BARCODE, written, claims, writers, completed>>
  /\ UNCHANGED detailVars

\* main, lines 255-295: one iteration of "for FILENAME in barcdict[BARCODE]".
ProcessImage(w) ==
  /\ pc[w] = "images"
  /\ imgIdx[w] <= nimg[BARCODE[w]]
  /\ LET b == BARCODE[w]
         i == imgIdx[w]
     IN \E openOk \in BOOLEAN :
          /\ IF ReachesWrite(openOk)
               THEN /\ outFile' = [outFile EXCEPT ![b][i] = nrow * ncol]
                    /\ datFile' = [datFile EXCEPT ![b][i] = nrow * ncol]
                    /\ written' = [written EXCEPT ![w] = Append(@, i)]
                    /\ writers' = [writers EXCEPT ![b] = IF written[w] = <<>> THEN @ + 1 ELSE @]
                    /\ completed' = [completed EXCEPT ![b] = @ \/ (openOk /\ i = nimg[b])]
               ELSE UNCHANGED <<outFile, datFile, written, writers, completed>>
          /\ IF openOk
               THEN imgIdx' = [imgIdx EXCEPT ![w] = i + 1] /\ UNCHANGED <<pc, err, barcdict>>
               ELSE Raise(w, "IOError") /\ UNCHANGED imgIdx
  /\ UNCHANGED <<cfg, nimg, BARCODE, claims, opens>>
  /\ UNCHANGED detailVars

\* main, line 300: drop every barcode whose analysis has started; the iteration is over.
Refilter(w) ==
  /\ pc[w] = "images"
  /\ imgIdx[w] > nimg[BARCODE[w]]
  /\ barcdict' = [barcdict EXCEPT ![w] = DropStarted(@, outFile)]
  /\ BARCODE' = [BARCODE EXCEPT ![w] = 0]
  /\ imgIdx' = [imgIdx EXCEPT ![w] = 0]
  /\ written' = [written EXCEPT ![w] = <<>>]
  /\ pc' = [pc EXCEPT ![w] = "loop"]
  /\ UNCHANGED <<cfg, nimg, outFile, datFile, err, claims, opens, writers, completed>>
  /\ UNCHANGED detailVars

\* The worker process is killed: its local variables are gone.
Kill(w) ==
  /\ pc[w] \notin {"done", "crashed", "killed"}
  /\ pc' = [pc EXCEPT ![w] = "killed"]
  /\ barcdict' = [barcdict EXCEPT ![w] = {}]
  /\ imgIdx' = [imgIdx EXCEPT ![w] = 0]
  /\ UNCHANGED <<cfg, nimg, outFile, datFile, BARCODE, err, written,
                 claims, opens, writers, completed>>
  /\ UNCHANGED detailVars

Next ==
  \E w \in Workers :
    \/ Startup(w)
    \/ Finish(w)
    \/ Claim(w)
    \/ Prepare(w)
    \/ ProcessImage(w)
    \/ Refilter(w)
    \/ Kill(w)

Spec == Init /\ [][Next]_vars

\* Prepare when every image opens and Colonyzer.txt has an entry to offer: the only
\* exceptions left are those the command line brings about.
PrepareOk(w) ==
  /\ Prepare(w)
  /\ err'[w] # "IOError"
  /\ err'[w] = "calibration" => gridDegenerate(nrow, ncol)

\* ProcessImage when the image opens.
ProcessImageOk(w) ==
  /\ ProcessImage(w)
  /\ err'[w] # "IOError"

\* A worker that nobody kills, on files that are all readable: the steps of main.
Run(w) ==
  \/ Startup(w)
  \/ Finish(w)
  \/ Claim(w)
  \/ PrepareOk(w)
  \/ ProcessImageOk(w)
  \/ Refilter(w)

RunNext == \E w \in Workers : Run(w)

\* Every worker process keeps being scheduled: a worker that can take a step of main
\* eventually takes one.
LiveSpec == Init /\ [][RunNext]_vars /\ \A w \in Workers : WF_vars(Run(w))

\* ------------------------------------------------------------- one iteration, line by line
\* One worker, alone on the directory, takes the first barcode through one iteration
\* of the while loop of main (both scripts).

\* An uncaught exception ends the walk.
Raised(e) ==
  /\ step' = "raised"
  /\ loc' = [loc EXCEPT !.exc = e]

\* Line 183 (timecourse_fixedpos.py 164): var=buildVars(...)
BuildVars ==
  /\ step = "start"
  /\ IF buildVars(cfg).raises
       THEN Raised("UnboundLocalError")
       ELSE step' = "built" /\ UNCHANGED loc
  /\ UNCHANGED <<cfg, nimg, protocolVars, calls, geom, windows>>

\* Lines 193-207 (timecourse_fixedpos.py 175-180): the report file, the marker, the
\* latest and the earliest image.
OpenReference ==
  /\ step = "built"
  /\ \E openOk \in BOOLEAN :
       /\ IF openOk
            THEN /\ step' = "opened"
                 /\ loc' = [loc EXCEPT !.arrN = RawArray(1), !.arr0 = RawArray(BatchLen)]
            ELSE Raised("IOError")
       /\ calls' = [calls EXCEPT
                      !.PdfPages = IF cfg.script = "parseAndRun" /\ plots THEN 1 ELSE 0,
                      !.openImage = IF openOk THEN referenceOpens(cfg.script, BatchLen) ELSE 1]
  /\ UNCHANGED <<cfg, nimg, protocolVars, geom, windows>>

\* Lines 209-218 (timecourse_fixedpos.py 182-190): initial guesses, locateCultures.
Locate ==
  /\ step = "opened"
  /\ \E ins \in InsDataKinds :
       IF (initpos /\ loadLocationGuesses(ins).raises) \/ gridDegenerate(nrow, ncol)
         THEN Raised("calibration")
         ELSE step' = "located" /\ UNCHANGED loc
  /\ UNCHANGED <<cfg, nimg, protocolVars, calls, geom, windows>>

\* Lines 220-242 (timecourse_fixedpos.py 192-211): the correction map, the corrected
\* latest image, the trimmed array.
Correct ==
  /\ step = "located"
  /\ IF cfg.script = "parseAndRun"
       THEN IF correction
              THEN IF buildVars(cfg).cut
                     \* line 222: edgeFill calls getEdges, which is not defined
                     THEN Raised("NameError") /\ UNCHANGED calls
                     ELSE \E back \in Levels :
                            /\ loc' = [loc EXCEPT
                                         !.correction_map = TRUE,
                                         !.average_back = back,
                                         !.corrected_arrN = [loc.arrN EXCEPT !.corrected = TRUE],
                                         !.trimmed_arrN = [loc.arrN EXCEPT !.corrected = TRUE]]
                            /\ calls' = [calls EXCEPT !.makeCorrectionMap = @ + 1]
                            /\ step' = "corrected"
              ELSE \E back \in Levels :
                     /\ loc' = [loc EXCEPT
                                  !.average_back = back,
                                  !.corrected_arrN = loc.arrN,
                                  !.trimmed_arrN = loc.arrN]
                     /\ step' = "corrected"
                     /\ UNCHANGED calls
       \* timecourse_fixedpos.py: the map is built whatever -c says; line 211 trims arrN
       ELSE \E back \in Levels :
              /\ loc' = [loc EXCEPT
                           !.correction_map = TRUE,
                           !.average_back = back,
                           !.corrected_arrN = [loc.arrN EXCEPT !.corrected = TRUE],
                           !.trimmed_arrN = loc.arrN]
              /\ calls' = [calls EXCEPT !.makeCorrectionMap = @ + 1]
              /\ step' = "corrected"
  /\ UNCHANGED <<cfg, nimg, protocolVars, geom, windows>>

\* Lines 244-253 (timecourse_fixedpos.py 213-226): the base threshold.
Threshold ==
  /\ step = "corrected"
  /\ IF usesFixedThresh(buildVars(cfg).fixedThresh)
       THEN /\ loc' = [loc EXCEPT !.thresh = buildVars(cfg).fixedThresh, !.FILENAME = 1]
            /\ UNCHANGED calls
       ELSE \E t \in Levels :
              /\ loc' = [loc EXCEPT !.thresh = t, !.fitted = loc.trimmed_arrN, !.FILENAME = 1]
              /\ calls' = [calls EXCEPT
                             !.automaticThreshold = @ + 1,
                             !.plotModel = IF plots THEN @ + 1 ELSE @,
                             !.PdfPages = IF cfg.script = "timecourse_fixedpos" /\ plots
                                            THEN @ + 1 ELSE @]
  /\ step' = "loop"
  /\ UNCHANGED <<cfg, nimg, protocolVars, geom, windows>>

\* Lines 255-295 (timecourse_fixedpos.py 228-254): one image of the batch.
Image ==
  /\ step = "loop"
  /\ loc.FILENAME <= BatchLen
  /\ \E openOk \in BOOLEAN, mean \in Levels :
       IF ~openOk
         THEN Raised("IOError") /\ UNCHANGED calls
       ELSE IF correction /\ ~loc.correction_map
         THEN Raised("NameError") /\ UNCHANGED calls
       ELSE
         LET drift == buildVars(cfg).diffIms
             arr == [image |-> loc.FILENAME,
                     corrected |-> correction,
                     shift |-> IF drift THEN loc.average_back - mean ELSE 0]
         IN /\ loc' = [loc EXCEPT
                         !.arr = arr,
                         !.meanPx = IF drift \/ cfg.script = "timecourse_fixedpos"
                                      THEN mean ELSE @,
                         !.threshadj = IF drift
                                         THEN adjustThreshold(loc.thresh, loc.average_back, mean)
                                         ELSE loc.thresh,
                         \* line 275: corrected_arrN; timecourse_fixedpos.py 243: arrN
                         !.compared = IF cfg.script = "parseAndRun"
                                        THEN loc.corrected_arrN ELSE loc.arrN,
                         !.measured = arr,
                         !.FILENAME = @ + 1]
            /\ calls' = [calls EXCEPT
                           !.measureSizeAndColour = @ + 1,
                           !.threshPreview = IF savesPreview(plots) THEN @ + 1 ELSE @,
                           !.save = IF savesPreview(plots) THEN @ + 1 ELSE @]
            /\ UNCHANGED step
  /\ UNCHANGED <<cfg, nimg, protocolVars, geom, windows>>

\* Lines 297-302 (timecourse_fixedpos.py 256-259): the batch is over.
EndBatch ==
  /\ step = "loop"
  /\ loc.FILENAME > BatchLen
  /\ step' = "finished"
  /\ UNCHANGED <<cfg, nimg, protocolVars, loc, calls, geom, windows>>

WalkNext ==
  \/ BuildVars
  \/ OpenReference
  \/ Locate
  \/ Correct
  \/ Threshold
  \/ Image
  \/ EndBatch

WalkInit ==
  /\ cfg \in Options
  /\ nimg \in ImageCounts
  /\ BatchLen >= 1
  /\ ProtocolInit
  /\ step = "start"
  /\ loc = NoLocals
  /\ calls = NoCalls
  /\ geom = <<>>
  /\ windows = <<>>

WalkSpec == WalkInit /\ [][WalkNext]_vars

\* ------------------------------------------------------------- index windows
\* The window expressions of the scripts applied to one axis of a grid.
ComputeTrim ==
  /\ "trim" \notin windows.computed
  /\ windows' = [windows EXCEPT !.computed = @ \cup {"trim"}, !.trim = trimWindow(geom)]
  /\ UNCHANGED <<cfg, nimg, protocolVars, step, loc, calls, geom>>

ComputeDrift ==
  /\ "drift" \notin windows.computed
  /\ windows' = [windows EXCEPT !.computed = @ \cup {"drift"}, !.drift = driftWindow(geom)]
  /\ UNCHANGED <<cfg, nimg, protocolVars, step, loc, calls, geom>>

ComputeAverageBack ==
  /\ "averageBack" \notin windows.computed
  /\ windows' = [windows EXCEPT !.computed = @ \cup {"averageBack"},
                                 !.averageBack = averageBackWindow(geom)]
  /\ UNCHANGED <<cfg, nimg, protocolVars, step, loc, calls, geom>>

ComputeCutEdges ==
  /\ "cutEdges" \notin windows.computed
  /\ windows' = [windows EXCEPT !.computed = @ \cup {"cutEdges"},
                                 !.cutEdges = cutEdgesFromMask(geom)]
  /\ UNCHANGED <<cfg, nimg, protocolVars, step, loc, calls, geom>>

WindowsNext ==
  \/ ComputeTrim
  \/ ComputeDrift
  \/ ComputeAverageBack
  \/ ComputeCutEdges

WindowsInit ==
  /\ cfg \in CommandLines
  /\ nimg = [b \in Barcodes |-> 1]
  /\ ProtocolInit
  /\ step = "off"
  /\ loc = <<>>
  /\ calls = <<>>
  /\ geom \in Axes
  /\ windows = NoWindows

WindowsSpec == WindowsInit /\ [][WindowsNext]_vars

\* ------------------------------------------------------------- properties
\* The rows of the per-image file of image i of barcode b, as (image, cell) pairs.
RowsOf(files, b, i) ==
  IF files[b][i] > 0 THEN [c \in 1..files[b][i] |-> <<i, c>>] ELSE <<>>

RECURSIVE SeriesUpTo(_, _, _)
SeriesUpTo(files, b, i) ==
  IF i = 0 THEN <<>> ELSE SeriesUpTo(files, b, i - 1) \o RowsOf(files, b, i)

\* The time series of barcode b: its per-image row sets, in the order of the batch.
Series(b) == SeriesUpTo(outFile, b, nimg[b])

\* n x (nrow x ncol) rows, one per (image, cell) pair, image first.
ExpectedSeries(b) ==
  LET cells == nrow * ncol IN
    [r \in 1..(nimg[b] * cells) |-> <<((r - 1) \div cells) + 1, ((r - 1) % cells) + 1>>]

GridMalformed == Len(cfg.fmt) > 2 \/ nrow * ncol = 0

\* Some barcode with images has no marker yet.
UnclaimedLeft == \E x \in Barcodes : nimg[x] > 0 /\ ~MarkerExists(outFile, x)

\* C1: mutual exclusion of claimed batches: a worker that is in the image loop of a
\* barcode is the only worker that has created that barcode's marker and the only
\* one that has opened its images.
C1_MutualExclusion ==
  \A w \in Workers :
    pc[w] = "images" => claims[BARCODE[w]] = 1 /\ opens[BARCODE[w]] = 1

\* C2: the marker is created exclusively: at most one worker's marker creation for a
\* given barcode succeeds.
C2_ExclusiveCreate == \A b \in Barcodes : claims[b] <= 1

\* C3: at most one worker ever writes per-image .out/.dat files for a barcode.
C3_SingleWriter == \A b \in Barcodes : writers[b] <= 1

\* C4: an index build (checkImages at start-up, directory or manifest) and the
\* re-filter after a processed barcode leave no barcode in the worker's dictionary
\* whose marker exists.
C4_IndexRespectsMarkers ==
  [][\A w \in Workers :
       (pc[w] \in {"start", "images"} /\ pc'[w] = "loop")
         => \A b \in barcdict'[w] : ~MarkerExists(outFile, b)]_vars

\* C4 witness: a worker holds a freshly built, non-empty index that leaves out a
\* barcode another worker is analysing.
C4_Witness ==
  \E w1, w2 \in Workers :
    /\ w1 # w2
    /\ pc[w1] = "loop" /\ barcdict[w1] # {}
    /\ pc[w2] \in {"claimed", "images"}
    /\ MarkerExists(outFile, BARCODE[w2])
    /\ BARCODE[w2] \notin barcdict[w1]

\* C5: once the marker of a barcode exists, it exists in every later state.
C5_MarkerPersists ==
  [][\A b \in Barcodes : MarkerExists(outFile, b) => MarkerExists(outFile', b)]_vars

\* C5 witness: the marker of a completed barcode and the marker of a barcode whose
\* worker crashed or was killed are both in place.
C5_Witness ==
  /\ \E b \in Barcodes : completed[b] /\ MarkerExists(outFile, b)
  /\ \E w \in Workers :
       /\ pc[w] \in {"crashed", "killed"}
       /\ BARCODE[w] # 0
       /\ ~completed[BARCODE[w]]
       /\ MarkerExists(outFile, BARCODE[w])

\* C6: for every barcode a worker has processed to completion, the time series holds
\* exactly n x (nrow x ncol) rows, one per (image, cell) pair, in image-then-cell order.
C6_SeriesComplete ==
  \A b \in Barcodes : completed[b] => Series(b) = ExpectedSeries(b)

\* C7: with a malformed grid format no marker is created, no image is opened and no
\* image is processed.
C7_MalformedGridFatal ==
  GridMalformed =>
    \A b \in Barcodes : claims[b] = 0 /\ opens[b] = 0 /\ writers[b] = 0

\* C8: a calibration error leaves the marker of the barcode in place and no output
\* of the worker for it, and stops the worker only when no barcode is left to analyse.
C8_CalibrationErrorLocal ==
  \A w \in Workers :
    err[w] = "calibration" =>
      /\ MarkerExists(outFile, BARCODE[w])
      /\ written[w] = <<>>
      /\ pc[w] = "crashed" => ~UnclaimedLeft

\* C9: after a failed open in the image loop the error has ended the worker, the
\* worker has written the images before the failing one and no other, and, when no
\* other worker has claimed the barcode, the files of the failing image and of the
\* images after it hold no record while the earlier ones hold theirs.
C9_OpenFailureStopsBatch ==
  \A w \in Workers :
    (err[w] = "IOError" /\ imgIdx[w] >= 1) =>
      LET b == BARCODE[w]
          i == imgIdx[w]
      IN /\ pc[w] = "crashed"
         /\ written[w] = [j \in 1..(i - 1) |-> j]
         /\ claims[b] = 1 =>
              \A j \in 1..nimg[b] :
                IF j < i
                  THEN outFile[b][j] = nrow * ncol /\ datFile[b][j] = nrow * ncol
                  ELSE outFile[b][j] \in {Absent, 0} /\ datFile[b][j] = Absent

\* C9 witness: the open of the second image of a batch has failed.
C9_Witness ==
  \E w \in Workers :
    /\ pc[w] = "crashed" /\ err[w] = "IOError"
    /\ imgIdx[w] = 2
    /\ written[w] = <<1>>

\* C10: in manifest mode a malformed entry does not stop checkImages: a worker that
\* has built its index was not ended by the entry.
C10_MalformedEntrySkipped ==
  \A w \in Workers :
    (cfg.usedict /\ Malformed(Barcodes) /\ pc[w] \notin {"start", "killed"})
      => ~(pc[w] = "crashed" /\ err[w] = "IndexError")

\* Worker w was killed after line 199 of an iteration and before the last image of
\* the batch was written.
KilledMidBatch(w) ==
  /\ pc[w] = "killed"
  /\ BARCODE[w] # 0
  /\ Len(written[w]) < nimg[BARCODE[w]]

Thresholded == loc.FILENAME >= 1

\* The walk has measured at least one image of the batch.
Measured == loc.measured # NoArray

\* C12: with lighting correction disabled, drift correction is not active whatever
\* the other options are, and the adjusted threshold of every image processed equals
\* the base threshold, the pixel values being left as they are.
C12_NoAdjustmentWithoutCorrection ==
  ~cfg.lc =>
    /\ ~buildVars(cfg).diffIms
    /\ Measured => loc.threshadj = loc.thresh /\ loc.arr.shift = 0

\* C12 witness: -m without -c, and every image of a batch of two or more is done.
C12_Witness ==
  /\ ~cfg.lc /\ cfg.diffims
  /\ step = "finished"
  /\ BatchLen >= 2
  /\ loc.threshadj = loc.thresh

\* C13: in every image-loop iteration the array compared with the threshold is the
\* corrected array when correction is enabled and the raw array otherwise, and it has
\* the same corrected/raw status as the trimmed array the threshold was fitted on and
\* as the array passed to measurement.
C13_ThresholdArrayConsistency ==
  Measured =>
    /\ loc.compared.corrected = cfg.lc
    /\ loc.compared.corrected = loc.trimmed_arrN.corrected
    /\ loc.compared.corrected = loc.measured.corrected

\* C14: whenever lighting correction is enabled, with or without signal removal, the
\* correction step of the iteration builds the correction map exactly once and
\* leaves it defined.
C14_CorrectionMapBuilt ==
  (cfg.lc /\ (step \in {"corrected", "loop", "finished"}
               \/ (step = "raised" /\ loc.exc = "NameError")))
    => calls.makeCorrectionMap = 1 /\ loc.correction_map

\* C15: a non-negative fixed threshold is the base threshold and the automatic fit
\* is never called for the barcode; when no fixed threshold is given the automatic
\* fit is called exactly once for the barcode.
C15_FixedThresholdOrOneFit ==
  /\ (cfg.fixthresh # <<>> /\ cfg.fixthresh[1] >= 0) =>
       /\ calls.automaticThreshold = 0
       /\ Thresholded => loc.thresh = cfg.fixthresh[1]
  /\ cfg.fixthresh = <<>> =>
       calls.automaticThreshold = IF Thresholded THEN 1 ELSE 0

\* C15 witness: the batch is finished under a fixed threshold of 0.
C15_Witness ==
  /\ cfg.fixthresh = <<0>>
  /\ step = "finished"
  /\ loc.thresh = 0

\* C16 as stated: with the plots option off no overlay is rendered or saved for any
\* image of the batch.
C16_NoOverlayWithoutPlots ==
  ~cfg.plots => calls.threshPreview = 0 /\ calls.save = 0

\* C16 amended: with the plots option off no report file is opened and no threshold
\* model is plotted, while one overlay is rendered and saved for every image measured.
C16_NoReportWithoutPlots ==
  ~cfg.plots =>
    /\ calls.PdfPages = 0
    /\ calls.plotModel = 0
    /\ calls.threshPreview = calls.measureSizeAndColour
    /\ calls.save = calls.measureSizeAndColour

\* C16 witness: a batch of two or more images is finished with plots off and an
\* automatic threshold.
C16_Witness ==
  /\ ~cfg.plots
  /\ step = "finished"
  /\ BatchLen >= 2
  /\ calls.automaticThreshold = 1
  /\ calls.save = BatchLen

\* C17: for a single-timepoint batch the image is opened exactly once before the
\* image loop and the same array serves as reference and as background image.
C17_SingleTimepointOpenedOnce ==
  (BatchLen = 1 /\ step \in {"opened", "located", "corrected", "loop", "finished"})
    => calls.openImage = 1 /\ loc.arr0 = loc.arrN

\* C18: every window derived from the grid (trim, drift, averageBackground, the
\* envelope cutEdgesFromMask keeps) starts at a non-negative index and ends within
\* the image.
C18_WindowsClamped ==
  /\ "trim" \in windows.computed =>
       windows.trim[1] >= 0 /\ windows.trim[2] <= geom.shape
  /\ "drift" \in windows.computed =>
       windows.drift[1] >= 0 /\ windows.drift[2] <= geom.shape
  /\ "averageBack" \in windows.computed =>
       windows.averageBack[1] >= 0 /\ windows.averageBack[2] <= geom.shape
  /\ "cutEdges" \in windows.computed =>
       windows.cutEdges[1] >= 0 /\ windows.cutEdges[2] <= 2 * geom.shape

\* C20: with drift correction active the pixel values of an image and its threshold
\* are shifted by the same amount, average_back minus the mean background intensity
\* of the window, so that every pixel keeps its distance to the threshold.
C20_DriftShiftsBoth ==
  (buildVars(cfg).diffIms /\ Measured) =>
    /\ loc.arr.shift = loc.average_back - loc.meanPx
    /\ \A v \in Levels : (v + loc.arr.shift) - loc.threshadj = v - loc.thresh

\* C20 witness: an image was measured whose background mean differs from
\* average_back, so that the shift is not zero.
C20_Witness ==
  /\ buildVars(cfg).diffIms
  /\ Measured
  /\ loc.average_back # loc.meanPx
  /\ loc.threshadj # loc.thresh

\* C19: every iteration of a worker's main loop removes the barcode it has just
\* processed from the worker's queue, which never grows, and every worker that no
\* exception ends reaches the "no more barcodes" state.
C19_DrainAndTerminate ==
  /\ [][\A w \in Workers :
          (pc[w] = "images" /\ pc'[w] = "loop") =>
            /\ BARCODE[w] \in barcdict[w]
            /\ barcdict'[w] \subseteq barcdict[w] \ {BARCODE[w]}]_vars
  /\ \A w \in Workers : <>(pc[w] \in {"done", "crashed"})

\* C19 witness: every worker is done and every barcode was processed to completion.
C19_Witness ==
  /\ \A w \in Workers : pc[w] = "done"
  /\ \A b \in Barcodes : completed[b]
  /\ \E b \in Barcodes : nimg[b] >= 2

\* C21: whenever the .out file of the earliest image of a barcode is not empty, the
\* .out file of every image of that barcode holds its records.
C21_EarliestOutputImpliesAll ==
  \A b \in Barcodes :
    (nimg[b] > 0 /\ outFile[b][nimg[b]] > 0) =>
      \A j \in 1..nimg[b] : outFile[b][j] > 0

\* C21 witness: the earliest output of a batch of two or more images holds records
\* although two workers claimed the barcode and one of them was stopped on the way.
C21_Witness ==
  \E b \in Barcodes :
    /\ nimg[b] >= 2
    /\ outFile[b][nimg[b]] > 0
    /\ claims[b] >= 2
    /\ \E w \in Workers : pc[w] \in {"crashed", "killed"} /\ BARCODE[w] = b

\* C22: once buildVars has been called, it has returned a configuration, and the
\* command line that differs only in -q/--quiet gives the same result: the same lc,
\* cut, diffIms, threshold and grid values, returned in both cases.
C22_QuietIndependent ==
  (cfg.script = "parseAndRun" /\ step # "start") =>
    /\ ~(step = "raised" /\ loc.exc = "UnboundLocalError")
    /\ buildVars(cfg) = buildVars([cfg EXCEPT !.quiet = ~cfg.quiet])

\* Worker w is the only worker that has started.
Alone(w) == \A v \in Workers : v # w => pc[v] = "start"

\* C23: a worker takes the smallest barcode of its dictionary, keeps it until the
\* batch is over, is left with larger barcodes only, and its dictionary never grows,
\* so every barcode it takes is greater than all it took before and none is taken
\* twice; when it is the only worker running, the barcodes below the one it takes
\* are exactly those already taken, each once.
C23_AscendingNoRepeat ==
  [][\A w \in Workers :
       /\ (pc[w] = "loop" /\ pc'[w] = "claimed") =>
            /\ BARCODE'[w] \in barcdict[w]
            /\ \A x \in barcdict[w] : BARCODE'[w] <= x
            /\ Alone(w) =>
                 \A x \in Barcodes :
                   claims[x] = IF x < BARCODE'[w] /\ nimg[x] > 0 THEN 1 ELSE 0
       /\ (pc[w] \in {"claimed", "images"} /\ pc'[w] \in {"claimed", "images"}) =>
            BARCODE'[w] = BARCODE[w]
       /\ (pc[w] = "images" /\ pc'[w] = "loop") =>
            \A x \in barcdict'[w] : x > BARCODE[w]
       /\ pc[w] # "start" => barcdict'[w] \subseteq barcdict[w]]_vars

\* C23 witness: the only worker running has finished the first barcode and has
\* taken the second.
C23_Witness ==
  \E w \in Workers :
    /\ Alone(w)
    /\ pc[w] = "claimed"
    /\ BARCODE[w] = 2
    /\ completed[1]

====
